---- MODULE Spec2Model ----
(***************************************************************************)
(* Model of the ethical stock screener: the methodology registry and the  *)
(* sector table of src/src/utils/constants.ts and the screening engine    *)
(* EthicalStockScreener (TypeScript implementation).                      *)
(*                                                                         *)
(* Numbers are fixed-point integers in hundredths: the                    *)
(* threshold 33.33 is 3333, the ratio 0.32 is 32 and `ratio * 100` is     *)
(* 3200.  For every input value used below the IEEE-754 product and the   *)
(* fixed-point product compare alike against every registered limit.      *)
(***************************************************************************)
EXTENDS Integers, Sequences, FiniteSets, TLC

VARIABLES screeningType, methodology, engine, error, stock, result

vars == <<screeningType, methodology, engine, error, stock, result>>

(***************************************************************************)
(* JavaScript values                                                       *)
(***************************************************************************)
\* the value `undefined`
Undefined == [kind |-> "undefined"]

\* the printed form of `undefined` / a missing string
UndefinedStr == "undefined"

\* the number Infinity: greater than every finite number (see JsLeq)
Infinity == -1

\* a <= b over finite fixed-point numbers and Infinity
JsLeq(a, b) ==
    IF a = Infinity THEN b = Infinity
    ELSE IF b = Infinity THEN TRUE
    ELSE a <= b

\* Array.prototype.includes
Includes(seq, x) == \E i \in DOMAIN seq : seq[i] = x

\* Array.prototype.filter keeps the order of the array
Range(seq) == {seq[i] : i \in DOMAIN seq}

\* own property test of a record-like object
Has(obj, field) == field \in DOMAIN obj

(***************************************************************************)
(* Properties every object literal inherits from Object.prototype: a      *)
(* lookup obj[key] that finds no own property returns these.              *)
(***************************************************************************)
ObjectPrototype ==
    ("constructor" :> [kind |-> "function", name |-> "Object"]) @@
    ("toString" :> [kind |-> "function", name |-> "toString"])

\* obj[key] for an object given by its own keys and their values
GetProp(ownKeys, values, key) ==
    IF Includes(ownKeys, key) THEN values[key]
    ELSE IF key \in DOMAIN ObjectPrototype THEN ObjectPrototype[key]
    ELSE Undefined

\* truthiness of an object-or-undefined value
Truthy(v) == v # Undefined

(***************************************************************************)
(* Screening Type Index                                                    *)
(***************************************************************************)
ETHICAL_SCREENING_TYPES ==
    [islamic   |-> <<"AAOIFI", "DJIM", "FTSE", "MSCI", "MSCI_M_SERIES", "SP500",
                     "INDONESIA", "MALAYSIA">>,
     esg       |-> <<"MSCI_ESG", "SUSTAINALYTICS", "FTSE4GOOD", "REFINITIV_ESG",
                     "CUSTOM_ESG">>,
     christian |-> <<"SRI", "CATHOLIC", "PROTESTANT", "EVANGELICAL",
                     "CUSTOM_CHRISTIAN">>,
     jewish    |-> <<"ORTHODOX", "CONSERVATIVE", "REFORM", "CUSTOM_JEWISH">>,
     custom    |-> <<"USER_DEFINED">>]

(***************************************************************************)
(* Methodology registry, in declaration order                              *)
(***************************************************************************)
MethodologyKeys ==
    <<"AAOIFI", "DJIM", "FTSE", "MSCI", "MSCI_M_SERIES", "SP500", "INDONESIA",
      "MALAYSIA", "MSCI_ESG", "SUSTAINALYTICS", "FTSE4GOOD", "SRI", "CATHOLIC",
      "ORTHODOX", "CONSERVATIVE">>

IslamicProhibited ==
    <<"financial_services", "banks", "insurance", "alcohol", "tobacco",
      "gambling", "adult_entertainment", "defense", "pork">>

ALL_METHODOLOGIES ==
    ("AAOIFI" :> [
        name |-> "AAOIFI", type |-> "islamic",
        criteria |-> [cash_limit |-> 3000, debt_limit |-> 3000,
                      receivables_limit |-> 6700,
                      impermissible_income_limit |-> 500,
                      use_total_assets |-> FALSE],
        prohibited_sectors |-> IslamicProhibited \o <<"interest_based_activities">>]) @@
    ("DJIM" :> [
        name |-> "Dow Jones Islamic Market", type |-> "islamic",
        criteria |-> [cash_limit |-> 3300, debt_limit |-> 3300,
                      receivables_limit |-> 3300,
                      impermissible_income_limit |-> 500,
                      use_total_assets |-> FALSE],
        prohibited_sectors |-> IslamicProhibited]) @@
    ("FTSE" :> [
        name |-> "FTSE Shariah", type |-> "islamic",
        criteria |-> [cash_limit |-> 3300, debt_limit |-> 3300,
                      receivables_limit |-> 5000,
                      impermissible_income_limit |-> 500,
                      use_total_assets |-> TRUE],
        prohibited_sectors |-> IslamicProhibited]) @@
    ("MSCI" :> [
        name |-> "MSCI Islamic", type |-> "islamic",
        criteria |-> [cash_limit |-> 3333, debt_limit |-> 3333,
                      receivables_limit |-> 3333,
                      impermissible_income_limit |-> 500,
                      use_total_assets |-> TRUE],
        prohibited_sectors |-> IslamicProhibited]) @@
    ("MSCI_M_SERIES" :> [
        name |-> "MSCI Islamic M-Series", type |-> "islamic",
        criteria |-> [cash_limit |-> 3333, debt_limit |-> 3333,
                      receivables_limit |-> 4900,
                      impermissible_income_limit |-> 500,
                      use_total_assets |-> FALSE],
        prohibited_sectors |-> IslamicProhibited]) @@
    ("SP500" :> [
        name |-> "S&P 500 Shariah", type |-> "islamic",
        criteria |-> [cash_limit |-> 3300, debt_limit |-> 3300,
                      receivables_limit |-> 4900,
                      impermissible_income_limit |-> 500,
                      use_total_assets |-> FALSE],
        prohibited_sectors |-> IslamicProhibited]) @@
    ("INDONESIA" :> [
        name |-> "Indonesia Islamic", type |-> "islamic",
        criteria |-> [debt_limit |-> 4500,
                      impermissible_income_limit |-> 1000,
                      use_total_assets |-> TRUE],
        prohibited_sectors |-> IslamicProhibited]) @@
    ("MALAYSIA" :> [
        name |-> "Malaysia SC Shariah", type |-> "islamic",
        criteria |-> [cash_limit |-> 3300, debt_limit |-> 3300,
                      impermissible_income_limit |-> 2500,
                      use_total_assets |-> TRUE],
        prohibited_sectors |-> IslamicProhibited,
        preferred_sectors |-> <<"islamic_banking", "halal_food", "technology",
                                "healthcare">>]) @@
    ("MSCI_ESG" :> [
        name |-> "MSCI ESG Ratings", type |-> "esg",
        criteria |-> [min_esg_score |-> 700, max_carbon_intensity |-> 10000,
                      min_board_diversity |-> 3000,
                      exclude_controversies |-> TRUE],
        prohibited_sectors |-> <<"tobacco", "weapons", "thermal_coal", "oil_sands",
                                 "arctic_drilling">>,
        preferred_sectors |-> <<"clean_energy", "water_tech",
                                "sustainable_agriculture", "green_building">>]) @@
    ("SUSTAINALYTICS" :> [
        name |-> "Sustainalytics ESG Risk", type |-> "esg",
        criteria |-> [max_esg_risk |-> 2500, min_governance_score |-> 6000,
                      exclude_severe_controversies |-> TRUE],
        prohibited_sectors |-> <<"tobacco", "weapons", "gambling",
                                 "adult_entertainment", "predatory_lending">>,
        preferred_sectors |-> <<"renewable_energy", "healthcare", "education",
                                "sustainable_tech">>]) @@
    ("FTSE4GOOD" :> [
        name |-> "FTSE4Good", type |-> "esg",
        criteria |-> [min_esg_score |-> 650, exclude_controversies |-> TRUE,
                      min_board_diversity |-> 2500],
        prohibited_sectors |-> <<"tobacco", "weapons", "nuclear_power",
                                 "adult_entertainment">>,
        preferred_sectors |-> <<"clean_technology", "healthcare", "education">>]) @@
    ("SRI" :> [
        name |-> "Socially Responsible Investing", type |-> "christian",
        criteria |-> [exclude_sin_stocks |-> TRUE,
                      min_community_impact_score |-> 600,
                      support_human_dignity |-> TRUE],
        prohibited_sectors |-> <<"alcohol", "tobacco", "gambling",
                                 "adult_entertainment", "abortion_services",
                                 "predatory_lending", "private_prisons">>,
        preferred_sectors |-> <<"healthcare", "education", "clean_energy",
                                "community_development", "affordable_housing">>]) @@
    ("CATHOLIC" :> [
        name |-> "Catholic Social Teaching", type |-> "christian",
        criteria |-> [exclude_sin_stocks |-> TRUE,
                      min_community_impact_score |-> 700,
                      support_human_dignity |-> TRUE],
        prohibited_sectors |-> <<"alcohol", "tobacco", "gambling",
                                 "adult_entertainment", "abortion_services",
                                 "contraceptives", "embryonic_stem_cell",
                                 "predatory_lending">>,
        preferred_sectors |-> <<"healthcare", "education", "community_development",
                                "fair_trade", "microfinance">>]) @@
    ("ORTHODOX" :> [
        name |-> "Orthodox Jewish Values", type |-> "jewish",
        criteria |-> [kosher_food_only |-> TRUE, sabbath_observant |-> TRUE,
                      exclude_mixed_textiles |-> TRUE],
        prohibited_sectors |-> <<"pork", "shellfish", "non_kosher_food",
                                 "mixed_textiles", "gambling",
                                 "adult_entertainment", "interest_based_lending">>,
        preferred_sectors |-> <<"kosher_food", "technology", "healthcare",
                                "education", "israel_bonds">>]) @@
    ("CONSERVATIVE" :> [
        name |-> "Conservative Jewish Values", type |-> "jewish",
        criteria |-> [kosher_food_only |-> FALSE, sabbath_observant |-> FALSE,
                      exclude_mixed_textiles |-> FALSE],
        prohibited_sectors |-> <<"pork", "gambling", "adult_entertainment",
                                 "weapons">>,
        preferred_sectors |-> <<"technology", "healthcare", "education",
                                "social_justice">>])

(***************************************************************************)
(* Sector Classification table: tag -> literal sector names                *)
(***************************************************************************)
SECTOR_CLASSIFICATIONS ==
    [financial_services |-> <<"Banks", "Insurance", "Financial Services",
                              "Credit Services", "Investment Banking">>,
     banks |-> <<"Commercial Banks", "Investment Banks", "Regional Banks",
                 "Savings Banks">>,
     insurance |-> <<"Life Insurance", "Property Insurance", "Health Insurance",
                     "Reinsurance">>,
     alcohol |-> <<"Alcoholic Beverages", "Distillers & Vintners", "Brewers",
                   "Wine & Spirits">>,
     tobacco |-> <<"Tobacco", "Cigarettes", "E-cigarettes", "Tobacco Products">>,
     pork |-> <<"Pork Processing", "Pork Products", "Pig Farming">>,
     gambling |-> <<"Casinos & Gaming", "Gambling", "Lottery", "Sports Betting",
                    "Online Gaming">>,
     adult_entertainment |-> <<"Adult Entertainment", "Strip Clubs",
                               "Adult Content">>,
     defense |-> <<"Defense", "Aerospace & Defense", "Weapons",
                   "Military Equipment">>,
     kosher_food |-> <<"Kosher Food Products", "Kosher Restaurants",
                       "Kosher Certification">>,
     non_kosher_food |-> <<"Pork Products", "Shellfish", "Mixed Meat & Dairy">>,
     shellfish |-> <<"Shellfish Processing", "Crab", "Lobster", "Shrimp">>,
     clean_energy |-> <<"Solar Energy", "Wind Energy", "Hydroelectric",
                        "Geothermal", "Clean Technology">>,
     fossil_fuels |-> <<"Oil & Gas", "Coal", "Oil Refining", "Natural Gas">>,
     thermal_coal |-> <<"Coal Mining", "Coal Power", "Thermal Coal">>,
     weapons |-> <<"Weapons Manufacturing", "Military Contractors",
                   "Defense Systems">>,
     healthcare |-> <<"Pharmaceuticals", "Medical Devices", "Healthcare Services",
                      "Biotechnology">>,
     education |-> <<"Education Services", "Online Education",
                     "Educational Technology">>,
     community_development |-> <<"Community Banks", "Affordable Housing",
                                 "Microfinance">>,
     mixed_textiles |-> <<"Mixed Fiber Clothing", "Linen-Wool Blends">>,
     abortion_services |-> <<"Abortion Clinics", "Abortion Pharmaceuticals">>,
     contraceptives |-> <<"Contraceptive Manufacturing", "Birth Control">>,
     predatory_lending |-> <<"Payday Loans", "Title Loans",
                             "High-Interest Lending">>,
     technology |-> <<"Software", "Hardware", "Internet Services",
                      "Cloud Computing">>,
     sustainable_tech |-> <<"Clean Technology", "Energy Efficiency",
                            "Sustainable Materials">>]

(***************************************************************************)
(* Registry helpers                                                        *)
(***************************************************************************)
\* keys of the object Object.fromEntries(...) builds, in registry order; its
\* values are the registry's
getMethodologiesByType(type) ==
    SelectSeq(MethodologyKeys, LAMBDA k : ALL_METHODOLOGIES[k].type = type)

getMethodologyByKey(key) == GetProp(MethodologyKeys, ALL_METHODOLOGIES, key)

getSectorClassification(sectorKey) ==
    IF sectorKey \in DOMAIN SECTOR_CLASSIFICATIONS
    THEN SECTOR_CLASSIFICATIONS[sectorKey]
    ELSE <<>>

\* !!(name && type && criteria && prohibited_sectors)
validateMethodology(m) ==
    /\ Has(m, "name") /\ m.name # ""
    /\ Has(m, "type") /\ m.type # ""
    /\ Has(m, "criteria")
    /\ Has(m, "prohibited_sectors")

\* mutant: the sector is compared with the tag names, not their member lists
isSectorProhibited_ByTagName(stockSector, prohibitedSectors) ==
    Includes(prohibitedSectors, stockSector)

isSectorProhibited(stockSector, prohibitedSectors) ==
    \E i \in DOMAIN prohibitedSectors :
        Includes(getSectorClassification(prohibitedSectors[i]), stockSector)

(***************************************************************************)
(* EthicalStockScreener: construction                                      *)
(***************************************************************************)
MsgNoMethodologies == "No methodologies available for screening type"
MsgInvalidMethodology == "Invalid methodology"
MsgInvalidConfiguration == "Invalid methodology configuration"
NoError == ""
NoType == "<no instance>"

\* the outcome of a call: a returned value or a thrown error
Returned(v) == [threw |-> FALSE, value |-> v, message |-> NoError]
Thrown(msg) == [threw |-> TRUE, value |-> Undefined, message |-> msg]

\* methodology && methodology.type === screeningType
KeyMatchesType(m, type) ==
    Truthy(m) /\ Has(m, "type") /\ m.type = type

\* methodologiesForType[methodologyKey] || methodologiesForType[availableKeys[0]]
\*   || ALL_METHODOLOGIES.AAOIFI
FallbackMethodology(availableKeys, methodologyKey) ==
    LET byKey == GetProp(availableKeys, ALL_METHODOLOGIES, methodologyKey)
        first == GetProp(availableKeys, ALL_METHODOLOGIES, availableKeys[1])
    IN  IF Truthy(byKey) THEN byKey
        ELSE IF Truthy(first) THEN first
        ELSE ALL_METHODOLOGIES["AAOIFI"]

\* mutant: the key is never looked at, the first of the type is returned
getMethodology_FirstOfType(type, methodologyKey) ==
    LET availableKeys == getMethodologiesByType(type)
    IN  IF Len(availableKeys) = 0 THEN Thrown(MsgNoMethodologies)
        ELSE Returned(ALL_METHODOLOGIES[availableKeys[1]])

getMethodology(type, methodologyKey) ==
    LET m == getMethodologyByKey(methodologyKey)
        availableKeys == getMethodologiesByType(type)
    IN  IF KeyMatchesType(m, type) THEN Returned(m)
        ELSE IF Len(availableKeys) = 0 THEN Thrown(MsgNoMethodologies)
        ELSE Returned(FallbackMethodology(availableKeys, methodologyKey))

\* new EthicalStockScreener(type, methodologyKey)
constructor(type, methodologyKey) ==
    LET r == getMethodology(type, methodologyKey)
    IN  IF r.threw THEN r
        ELSE IF ~Truthy(r.value) THEN Thrown(MsgInvalidMethodology)
        ELSE IF ~validateMethodology(r.value) THEN Thrown(MsgInvalidConfiguration)
        ELSE r

(***************************************************************************)
(* EthicalStockScreener: the three sub-checks                              *)
(***************************************************************************)
\* `financials.f || d`: a missing field and the number 0 are both falsy
OrDefault(financials, f, d) ==
    IF Has(financials, f) /\ financials[f] # 0 THEN financials[f] ELSE d

\* x * 100: a fraction in hundredths becomes a percentage in hundredths
Times100(x) == x * 100

\* the number 100 (default ESG risk), in hundredths
DefaultEsgRisk == 10000

\* SECTOR_CLASSIFICATIONS[tag]?.includes(sector)
TagIncludes(tag, sector) ==
    tag \in DOMAIN SECTOR_CLASSIFICATIONS
        /\ Includes(SECTOR_CLASSIFICATIONS[tag], sector)

\* const { prohibited_sectors = [], preferred_sectors = [] } = this.methodology
ProhibitedOf(m) ==
    IF Has(m, "prohibited_sectors") THEN m.prohibited_sectors ELSE <<>>

PreferredOf(m) ==
    IF Has(m, "preferred_sectors") THEN m.preferred_sectors ELSE <<>>

\* mutant: the preference is never enforced
IsPreferred_NotEnforced(preferred_sectors, sector) == TRUE

IsPreferred(preferred_sectors, sector) ==
    Len(preferred_sectors) = 0
        \/ \E i \in DOMAIN preferred_sectors :
               TagIncludes(preferred_sectors[i], sector)

ProhibitedCategories(prohibited_sectors, sector) ==
    SelectSeq(prohibited_sectors, LAMBDA ps : TagIncludes(ps, sector))

\* mutant: only the prohibition decides
SectorPassed_IgnoresPreferred(isProhibited, isPreferred) == ~isProhibited

SectorPassed(isProhibited, isPreferred) == ~isProhibited /\ isPreferred

checkSectorCompliance(m, s) ==
    LET isProhibited == isSectorProhibited(s.sector, ProhibitedOf(m))
        isPreferred == IsPreferred(PreferredOf(m), s.sector)
    IN  [passed |-> SectorPassed(isProhibited, isPreferred),
         details |-> [sector |-> s.sector,
                      isProhibited |-> isProhibited,
                      isPreferred |-> isPreferred,
                      prohibitedCategories |->
                          ProhibitedCategories(ProhibitedOf(m), s.sector)]]

\* one evaluated criteria field: its entry of `checks` and of `details`
CashCheck(criteria, financials) ==
    LET ratio == Times100(OrDefault(financials, "cash_ratio", 0))
        passed == ratio <= criteria.cash_limit
    IN  [name |-> "cash", passed |-> passed,
         detail |-> [ratio |-> ratio, limit |-> criteria.cash_limit,
                     passed |-> passed]]

DebtCheck(criteria, financials) ==
    LET ratio == Times100(OrDefault(financials, "debt_ratio", 0))
        passed == ratio <= criteria.debt_limit
    IN  [name |-> "debt", passed |-> passed,
         detail |-> [ratio |-> ratio, limit |-> criteria.debt_limit,
                     passed |-> passed]]

ReceivablesCheck(criteria, financials) ==
    LET ratio == Times100(OrDefault(financials, "receivables_ratio", 0))
        passed == ratio <= criteria.receivables_limit
    IN  [name |-> "receivables", passed |-> passed,
         detail |-> [ratio |-> ratio, limit |-> criteria.receivables_limit,
                     passed |-> passed]]

IncomeCheck(criteria, financials) ==
    LET income == Times100(OrDefault(financials, "impermissible_income", 0))
        passed == income <= criteria.impermissible_income_limit
    IN  [name |-> "income", passed |-> passed,
         detail |-> [value |-> income,
                     limit |-> criteria.impermissible_income_limit,
                     passed |-> passed]]

EsgScoreCheck(criteria, financials) ==
    LET score == OrDefault(financials, "esg_score", 0)
        passed == score >= criteria.min_esg_score
    IN  [name |-> "esg_score", passed |-> passed,
         detail |-> [score |-> score, minimum |-> criteria.min_esg_score,
                     passed |-> passed]]

\* mutant: a missing esg_risk defaults to 0 like the score fields
EsgRiskCheck_DefaultZero(criteria, financials) ==
    LET risk == OrDefault(financials, "esg_risk", 0)
        passed == risk <= criteria.max_esg_risk
    IN  [name |-> "esg_risk", passed |-> passed,
         detail |-> [risk |-> risk, maximum |-> criteria.max_esg_risk,
                     passed |-> passed]]

EsgRiskCheck(criteria, financials) ==
    LET risk == OrDefault(financials, "esg_risk", DefaultEsgRisk)
        passed == risk <= criteria.max_esg_risk
    IN  [name |-> "esg_risk", passed |-> passed,
         detail |-> [risk |-> risk, maximum |-> criteria.max_esg_risk,
                     passed |-> passed]]

\* mutant: a missing carbon_intensity defaults to 0 like the score fields
CarbonCheck_DefaultZero(criteria, financials) ==
    LET intensity == OrDefault(financials, "carbon_intensity", 0)
        passed == JsLeq(intensity, criteria.max_carbon_intensity)
    IN  [name |-> "carbon", passed |-> passed,
         detail |-> [intensity |-> intensity,
                     maximum |-> criteria.max_carbon_intensity,
                     passed |-> passed]]

CarbonCheck(criteria, financials) ==
    LET intensity == OrDefault(financials, "carbon_intensity", Infinity)
        passed == JsLeq(intensity, criteria.max_carbon_intensity)
    IN  [name |-> "carbon", passed |-> passed,
         detail |-> [intensity |-> intensity,
                     maximum |-> criteria.max_carbon_intensity,
                     passed |-> passed]]

DiversityCheck(criteria, financials) ==
    LET diversity == OrDefault(financials, "board_diversity", 0)
        passed == diversity >= criteria.min_board_diversity
    IN  [name |-> "diversity", passed |-> passed,
         detail |-> [diversity |-> diversity,
                     minimum |-> criteria.min_board_diversity,
                     passed |-> passed]]

GovernanceCheck(criteria, financials) ==
    LET score == OrDefault(financials, "governance_score", 0)
        passed == score >= criteria.min_governance_score
    IN  [name |-> "governance", passed |-> passed,
         detail |-> [score |-> score,
                     minimum |-> criteria.min_governance_score,
                     passed |-> passed]]

\* checks.sin_stocks = true: a placeholder with no entry in `details`
SinStocksCheck ==
    [name |-> "sin_stocks", passed |-> TRUE, detail |-> Undefined]

\* `if (criteria.f !== undefined) { ... }`
When(criteria, f, entry) == IF Has(criteria, f) THEN <<entry>> ELSE <<>>

\* the evaluated fields, in the order the code inserts them into `checks`
Evaluated(criteria, financials) ==
    When(criteria, "cash_limit", CashCheck(criteria, financials))
    \o When(criteria, "debt_limit", DebtCheck(criteria, financials))
    \o When(criteria, "receivables_limit", ReceivablesCheck(criteria, financials))
    \o When(criteria, "impermissible_income_limit", IncomeCheck(criteria, financials))
    \o When(criteria, "min_esg_score", EsgScoreCheck(criteria, financials))
    \o When(criteria, "max_esg_risk", EsgRiskCheck(criteria, financials))
    \o When(criteria, "max_carbon_intensity", CarbonCheck(criteria, financials))
    \o When(criteria, "min_board_diversity", DiversityCheck(criteria, financials))
    \o When(criteria, "min_governance_score", GovernanceCheck(criteria, financials))
    \o When(criteria, "exclude_sin_stocks", SinStocksCheck)

\* mutant: `some` in place of `every`
EveryCheck_Some(checks) == \E i \in DOMAIN checks : checks[i].passed

\* Object.values(checks).every(check => check)
EveryCheck(checks) == \A i \in DOMAIN checks : checks[i].passed

\* Object.entries(checks).filter(([_, passed]) => !passed).map(([c]) => c)
FailedCriteria(checks) ==
    LET failed == SelectSeq(checks, LAMBDA c : ~c.passed)
    IN  [i \in DOMAIN failed |-> failed[i].name]

checkQuantitativeCompliance(m, s) ==
    LET ev == Evaluated(m.criteria, s.financials)
        checks == [i \in DOMAIN ev |-> [name |-> ev[i].name, passed |-> ev[i].passed]]
        withDetail == SelectSeq(ev, LAMBDA e : e.name # "sin_stocks")
    IN  [passed |-> EveryCheck(checks),
         checks |-> checks,
         failedCriteria |-> FailedCriteria(checks),
         details |-> [n \in {withDetail[i].name : i \in DOMAIN withDetail} |->
                         (CHOOSE e \in Range(withDetail) : e.name = n).detail]]

\* a criteria flag read for its truthiness
Flag(criteria, f) == Has(criteria, f) /\ criteria[f] = TRUE

SevereReason == "Severe controversies detected"
ControversiesReason == "Controversies detected"

SevereHit(criteria, severity) ==
    Flag(criteria, "exclude_severe_controversies") /\ severity = "severe"

\* mutant: every recorded severity counts, 'low' included
ControversyHit_AnySeverity(criteria, severity) ==
    Flag(criteria, "exclude_controversies")
        /\ severity \in {"low", "medium", "high", "severe"}

ControversyHit(criteria, severity) ==
    Flag(criteria, "exclude_controversies")
        /\ severity \in {"medium", "high", "severe"}

\* failureReasons; the empty sequence stands for the `undefined` the code
\* stores when no reason was pushed
FailureReasons(criteria, controversies) ==
    IF Truthy(controversies)
    THEN (IF SevereHit(criteria, controversies.severity)
          THEN <<SevereReason>> ELSE <<>>)
         \o (IF ControversyHit(criteria, controversies.severity)
             THEN <<ControversiesReason>> ELSE <<>>)
    ELSE <<>>

\* mutant: a severe controversy fails whatever the criteria flags are
QualitativePassed_SevereAlways(criteria, controversies) ==
    ~(Truthy(controversies) /\ controversies.severity = "severe")

QualitativePassed(criteria, controversies) ==
    ~(Truthy(controversies)
        /\ (SevereHit(criteria, controversies.severity)
            \/ ControversyHit(criteria, controversies.severity)))

checkQualitativeCompliance(m, s) ==
    [passed |-> QualitativePassed(m.criteria, s.controversies),
     details |-> [controversies |-> s.controversies,
                  hasControversies |-> Truthy(s.controversies),
                  severityLevel |-> IF Truthy(s.controversies)
                                    THEN s.controversies.severity
                                    ELSE UndefinedStr,
                  failureReasons |-> FailureReasons(m.criteria, s.controversies)]]

(***************************************************************************)
(* EthicalStockScreener: score, recommendations, screenStock               *)
(***************************************************************************)
\* mutant: truncation in place of rounding
MathRound_Truncates(num, den) == num \div den

\* Math.round(num / den) for num >= 0, den > 0
MathRound(num, den) == (2 * num + den) \div (2 * den)

PassedCount(sector, quantitative, qualitative) ==
    (IF sector.passed THEN 1 ELSE 0)
        + (IF quantitative.passed THEN 1 ELSE 0)
        + (IF qualitative.passed THEN 1 ELSE 0)

MaxScore == 3

calculateComplianceScore(sector, quantitative, qualitative) ==
    MathRound(PassedCount(sector, quantitative, qualitative) * 100, MaxScore)

\* `detail.a || detail.b || ...` printed in a message: <<v>> for a number,
\* <<>> for undefined
FirstTruthy(detail, names) ==
    LET RECURSIVE Go(_)
        Go(i) ==
            IF i = Len(names)
            THEN (IF Has(detail, names[i]) THEN <<detail[names[i]]>> ELSE <<>>)
            ELSE IF Has(detail, names[i]) /\ detail[names[i]] # 0
                 THEN <<detail[names[i]]>>
                 ELSE Go(i + 1)
    IN  Go(1)

Message(source, text, arg, value, limit) ==
    [source |-> source, text |-> text, arg |-> arg, value |-> value,
     limit |-> limit]

\* mutant: one prohibited-sector message for each matching tag
SectorMessages_PerTag(sector) ==
    IF ~sector.passed
    THEN [i \in DOMAIN sector.details.prohibitedCategories |->
             Message("sector", "Consider excluding due to prohibited sector",
                     sector.details.sector, <<>>, <<>>)]
         \o (IF ~sector.details.isPreferred
             THEN <<Message("sector", "Consider focusing on preferred sectors",
                            "", <<>>, <<>>)>>
             ELSE <<>>)
    ELSE <<>>

SectorMessages(sector) ==
    IF ~sector.passed
    THEN (IF sector.details.isProhibited
          THEN <<Message("sector", "Consider excluding due to prohibited sector",
                         sector.details.sector, <<>>, <<>>)>>
          ELSE <<>>)
         \o (IF ~sector.details.isPreferred
             THEN <<Message("sector", "Consider focusing on preferred sectors",
                            "", <<>>, <<>>)>>
             ELSE <<>>)
    ELSE <<>>

QuantitativeMessages(quantitative) ==
    IF ~quantitative.passed
    THEN LET withDetail ==
                 SelectSeq(quantitative.failedCriteria,
                           LAMBDA c : c \in DOMAIN quantitative.details)
         IN  [i \in DOMAIN withDetail |->
                 Message("quantitative", "ratio needs improvement", withDetail[i],
                         FirstTruthy(quantitative.details[withDetail[i]],
                                     <<"ratio", "value">>),
                         FirstTruthy(quantitative.details[withDetail[i]],
                                     <<"limit", "maximum", "minimum">>))]
    ELSE <<>>

QualitativeMessages(qualitative) ==
    IF ~qualitative.passed /\ Len(qualitative.details.failureReasons) > 0
    THEN [i \in DOMAIN qualitative.details.failureReasons |->
             Message("qualitative", "Address qualitative concern",
                     qualitative.details.failureReasons[i], <<>>, <<>>)]
    ELSE <<>>

\* mutant: the qualitative messages are pushed first
generateRecommendations_QualitativeFirst(sector, quantitative, qualitative) ==
    QualitativeMessages(qualitative)
        \o SectorMessages(sector)
        \o QuantitativeMessages(quantitative)

generateRecommendations(sector, quantitative, qualitative) ==
    SectorMessages(sector)
        \o QuantitativeMessages(quantitative)
        \o QualitativeMessages(qualitative)

\* mutant: `||` in place of `&&`
IsCompliant_AnyPassed(sector, quantitative, qualitative) ==
    sector.passed \/ quantitative.passed \/ qualitative.passed

IsCompliant(sector, quantitative, qualitative) ==
    sector.passed /\ quantitative.passed /\ qualitative.passed

\* mutant: the result of the older implementation, without complianceScore
\* and recommendations
screenStock_Legacy(type, m, s) ==
    LET sectorCompliant == checkSectorCompliance(m, s)
        quantitativeCompliant == checkQuantitativeCompliance(m, s)
        qualitativeCompliant == checkQualitativeCompliance(m, s)
    IN  [isCompliant |-> IsCompliant(sectorCompliant, quantitativeCompliant,
                                     qualitativeCompliant),
         sectorCheck |-> sectorCompliant,
         quantitativeCheck |-> quantitativeCompliant,
         qualitativeCheck |-> qualitativeCompliant,
         screeningType |-> type,
         methodology |-> m.name]

screenStock(type, m, s) ==
    LET sectorCompliant == checkSectorCompliance(m, s)
        quantitativeCompliant == checkQuantitativeCompliance(m, s)
        qualitativeCompliant == checkQualitativeCompliance(m, s)
    IN  [isCompliant |-> IsCompliant(sectorCompliant, quantitativeCompliant,
                                     qualitativeCompliant),
         sectorCheck |-> sectorCompliant,
         quantitativeCheck |-> quantitativeCompliant,
         qualitativeCheck |-> qualitativeCompliant,
         screeningType |-> type,
         methodology |-> m.name,
         complianceScore |-> calculateComplianceScore(sectorCompliant,
                                 quantitativeCompliant, qualitativeCompliant),
         recommendations |-> generateRecommendations(sectorCompliant,
                                 quantitativeCompliant, qualitativeCompliant)]

\* validateStock: the shape every modelled stock has
validateStock(s) ==
    /\ Truthy(s)
    /\ Has(s, "symbol") /\ Has(s, "name") /\ Has(s, "sector")
    /\ Has(s, "financials")

(***************************************************************************)
(* Inputs                                                                  *)
(***************************************************************************)
\* at most this many of the optional financial fields are populated
MaxPresent == 3

ScreeningTypes == {"islamic", "esg", "christian", "jewish", "custom", "klingon"}

Keys ==
    Range(MethodologyKeys) \cup {"NOT_A_KEY", "USER_DEFINED", "constructor",
                                 "toString"}

Sectors ==
    {"Banks", "Software", "Healthcare", "Pharmaceuticals", "Tobacco",
     "Pork Products", "Clean Technology"}

Severities == {"low", "medium", "high", "severe"}

Controversies == {Undefined} \cup [severity : Severities \cup {UndefinedStr}]

FinancialFields ==
    <<"cash_ratio", "debt_ratio", "receivables_ratio", "impermissible_income",
      "esg_score", "esg_risk", "carbon_intensity", "board_diversity",
      "governance_score">>

\* fixed-point values a caller may supply for a field
FieldValues(f) ==
    CASE f = "cash_ratio" -> {32}
      [] f = "debt_ratio" -> {32}
      [] f = "receivables_ratio" -> {40}
      [] f = "impermissible_income" -> {7}
      [] f = "esg_score" -> {680, 800}
      [] f = "esg_risk" -> {0, 2000, 3000}
      [] f = "carbon_intensity" -> {0, 5000, 15000}
      [] f = "board_diversity" -> {4000}
      [] f = "governance_score" -> {7000}

NoFinancials == [f \in {} |-> 0]

\* every sparse financials object over the first n fields
RECURSIVE FinancialsUpTo(_)
FinancialsUpTo(n) ==
    IF n = 0 THEN {NoFinancials}
    ELSE LET rest == FinancialsUpTo(n - 1)
             f == FinancialFields[n]
         IN  rest \cup {g @@ (f :> v) :
                           g \in {h \in rest : Cardinality(DOMAIN h) < MaxPresent},
                           v \in FieldValues(f)}

Financials == FinancialsUpTo(Len(FinancialFields))

Stocks ==
    [symbol : {"SYM"}, name : {"Stock"}, sector : Sectors,
     financials : Financials, controversies : Controversies]

(***************************************************************************)
(* State machine: one engine instance and the call in progress             *)
(***************************************************************************)
NoStock == Undefined
NoResult == Undefined
NoThrow == [message |-> NoError, about |-> <<>>]

Init ==
    /\ engine = "none"
    /\ screeningType = NoType
    /\ methodology = Undefined
    /\ error = NoThrow
    /\ stock = NoStock
    /\ result = NoResult

\* the text interpolated into the thrown error's message
ErrorAbout(message, type, methodologyKey) ==
    IF message = MsgNoMethodologies THEN <<type>>
    ELSE IF message = MsgInvalidMethodology THEN <<methodologyKey, type>>
    ELSE <<methodologyKey>>

\* new EthicalStockScreener(type, methodologyKey)
Construct(type, methodologyKey) ==
    /\ engine = "none"
    /\ LET r == constructor(type, methodologyKey)
       IN  IF r.threw
           THEN /\ engine' = "raised"
                /\ screeningType' = NoType
                /\ methodology' = Undefined
                /\ error' = [message |-> r.message,
                             about |-> ErrorAbout(r.message, type, methodologyKey)]
           ELSE /\ engine' = "constructed"
                /\ screeningType' = type
                /\ methodology' = r.value
                /\ error' = NoThrow
    /\ UNCHANGED <<stock, result>>

\* engine.screenStock(s) for a stock s of the caller's
ScreenStock ==
    /\ engine = "constructed"
    /\ result = NoResult
    /\ \E s \in Stocks :
           /\ stock' = s
           /\ result' = screenStock(screeningType, methodology, s)
    /\ UNCHANGED <<screeningType, methodology, engine, error>>

\* the caller takes the returned result; the engine keeps nothing of the call
TakeResult ==
    /\ result # NoResult
    /\ stock' = NoStock
    /\ result' = NoResult
    /\ UNCHANGED <<screeningType, methodology, engine, error>>

\* the instance (or the failed construction) is dropped
Dispose ==
    /\ engine # "none"
    /\ result = NoResult
    /\ engine' = "none"
    /\ screeningType' = NoType
    /\ methodology' = Undefined
    /\ error' = NoThrow
    /\ UNCHANGED <<stock, result>>

Next ==
    \/ \E t \in ScreeningTypes, k \in Keys : Construct(t, k)
    \/ ScreenStock
    \/ TakeResult
    \/ Dispose

Spec == Init /\ [][Next]_vars

(***************************************************************************)
(* Properties                                                              *)
(***************************************************************************)
\* a screenStock call has returned: `stock` is its argument, `result` its value
Screened == result # NoResult

\* the literal sector names listed under a tag of the sector table
SectorMembers(tag) ==
    IF tag \in DOMAIN SECTOR_CLASSIFICATIONS
    THEN Range(SECTOR_CLASSIFICATIONS[tag])
    ELSE {}

\* how many of the three sub-checks of the result passed
ResultPassedCount ==
    Cardinality({c \in {"sectorCheck", "quantitativeCheck", "qualitativeCheck"} :
                    result[c].passed})

\* C1: for every registered methodology and stock, isCompliant is true exactly
\* when the sector, the quantitative and the qualitative check all passed
C1_CompliantIffAllPassed ==
    Screened =>
        (result.isCompliant
            <=> (/\ result.sectorCheck.passed
                 /\ result.quantitativeCheck.passed
                 /\ result.qualitativeCheck.passed))

\* a stock that passes two sub-checks and fails the third is not compliant
C1_Witness ==
    /\ Screened
    /\ ResultPassedCount = 2
    /\ ~result.isCompliant

\* C2: complianceScore is round(100 * passedCount / 3): 0, 33, 67 or 100 for
\* 0, 1, 2 or 3 passed sub-checks, hence never decreasing in passedCount
C2_ScoreTable ==
    Screened =>
        /\ result.complianceScore \in {0, 33, 67, 100}
        /\ result.complianceScore =
               CASE ResultPassedCount = 0 -> 0
                 [] ResultPassedCount = 1 -> 33
                 [] ResultPassedCount = 2 -> 67
                 [] ResultPassedCount = 3 -> 100

\* two passed sub-checks score 67
C2_Witness ==
    /\ Screened
    /\ ResultPassedCount = 2
    /\ result.complianceScore = 67

\* C3: whenever the stock's sector is a member of some tag T of the
\* methodology's prohibited_sectors, the sector check fails, isProhibited is
\* true and T is in prohibitedCategories (AAOIFI with "Banks": financial_services)
C3_ProhibitedSectorFails ==
    Screened =>
        \A T \in Range(methodology.prohibited_sectors) :
            stock.sector \in SectorMembers(T) =>
                /\ ~result.sectorCheck.passed
                /\ result.sectorCheck.details.isProhibited
                /\ Includes(result.sectorCheck.details.prohibitedCategories, T)

\* Scenario A: AAOIFI screens a stock of sector "Banks"
C3_Witness ==
    /\ Screened
    /\ methodology = ALL_METHODOLOGIES["AAOIFI"]
    /\ stock.sector = "Banks"
    /\ ~result.sectorCheck.passed
    /\ Includes(result.sectorCheck.details.prohibitedCategories,
                "financial_services")

\* C4: the sector check passes iff the sector is in no member list of a
\* prohibited tag and (preferred_sectors is absent or empty, or the sector is
\* in the member list of a preferred tag)
C4_SectorPassesIff ==
    Screened =>
        LET preferred == IF "preferred_sectors" \in DOMAIN methodology
                         THEN Range(methodology.preferred_sectors)
                         ELSE {}
            prohibitedHit == \E T \in Range(methodology.prohibited_sectors) :
                                 stock.sector \in SectorMembers(T)
            preferredHit == \E T \in preferred : stock.sector \in SectorMembers(T)
        IN  result.sectorCheck.passed
                <=> (~prohibitedHit /\ (preferred = {} \/ preferredHit))

\* a methodology with preferred sectors rejects a sector that is neither
\* prohibited nor preferred
C4_Witness ==
    /\ Screened
    /\ "preferred_sectors" \in DOMAIN methodology
    /\ ~result.sectorCheck.details.isProhibited
    /\ ~result.sectorCheck.passed

\* C5: the qualitative check fails exactly when exclude_severe_controversies
\* is set and the severity is 'severe', or exclude_controversies is set and the
\* severity is medium, high or severe; with no controversies record or neither
\* flag set it passes
C5_QualitativeFailsExactly ==
    Screened =>
        LET c == methodology.criteria
            severeFlag == "exclude_severe_controversies" \in DOMAIN c
                              /\ c.exclude_severe_controversies
            anyFlag == "exclude_controversies" \in DOMAIN c
                           /\ c.exclude_controversies
            has == stock.controversies # Undefined
        IN  /\ ~result.qualitativeCheck.passed
                <=> /\ has
                    /\ \/ severeFlag /\ stock.controversies.severity = "severe"
                       \/ anyFlag /\ stock.controversies.severity
                                         \in {"medium", "high", "severe"}
            /\ (~has \/ (~severeFlag /\ ~anyFlag)) => result.qualitativeCheck.passed

\* exclude_controversies passes a 'low' controversy
C5_Witness ==
    /\ Screened
    /\ "exclude_controversies" \in DOMAIN methodology.criteria
    /\ stock.controversies # Undefined
    /\ stock.controversies.severity = "low"
    /\ result.qualitativeCheck.passed

\* the check name each evaluated criteria field writes, in evaluation order
CheckOrder ==
    << <<"cash_limit", "cash">>, <<"debt_limit", "debt">>,
       <<"receivables_limit", "receivables">>,
       <<"impermissible_income_limit", "income">>,
       <<"min_esg_score", "esg_score">>, <<"max_esg_risk", "esg_risk">>,
       <<"max_carbon_intensity", "carbon">>,
       <<"min_board_diversity", "diversity">>,
       <<"min_governance_score", "governance">>,
       <<"exclude_sin_stocks", "sin_stocks">> >>

\* C6: the quantitative check passes iff every evaluated criteria field is
\* true in checks; failedCriteria lists, in evaluation order, exactly the
\* check names that are false (empty iff passed); a criteria field absent from
\* the methodology has no entry in checks
C6_QuantitativeStructure ==
    Screened =>
        LET q == result.quantitativeCheck
            present == SelectSeq(CheckOrder,
                                 LAMBDA e : e[1] \in DOMAIN methodology.criteria)
            falseAt == {i \in DOMAIN q.checks : ~q.checks[i].passed}
        IN  /\ Len(q.checks) = Len(present)
            /\ \A i \in DOMAIN q.checks : q.checks[i].name = present[i][2]
            /\ q.passed <=> \A i \in DOMAIN q.checks : q.checks[i].passed
            /\ q.passed <=> q.failedCriteria = <<>>
            /\ Len(q.failedCriteria) = Cardinality(falseAt)
            /\ \A j \in DOMAIN q.failedCriteria :
                   \E i \in falseAt :
                       /\ q.checks[i].name = q.failedCriteria[j]
                       /\ Cardinality({k \in falseAt : k < i}) = j - 1

\* two evaluated fields fail and a third passes
C6_Witness ==
    /\ Screened
    /\ Len(result.quantitativeCheck.failedCriteria) = 2
    /\ \E i \in DOMAIN result.quantitativeCheck.checks :
           result.quantitativeCheck.checks[i].passed

\* Scenario B: MSCI_ESG has screened a "Software" stock with esg_score 8.0,
\* carbon_intensity 50, board_diversity 40 and no controversies
ScenarioB ==
    /\ Screened
    /\ methodology = ALL_METHODOLOGIES["MSCI_ESG"]
    /\ stock.sector = "Software"
    /\ {"esg_score", "carbon_intensity", "board_diversity"}
           \subseteq DOMAIN stock.financials
    /\ stock.financials["esg_score"] = 800
    /\ stock.financials["carbon_intensity"] = 5000
    /\ stock.financials["board_diversity"] = 4000
    /\ stock.controversies = Undefined

\* C7 as stated: in Scenario B all three sub-checks pass and the score is 100
C7_ScenarioB_AllPass ==
    ScenarioB =>
        /\ result.sectorCheck.passed
        /\ result.quantitativeCheck.passed
        /\ result.qualitativeCheck.passed
        /\ result.complianceScore = 100

\* C7 amended: in Scenario B the quantitative and the qualitative check pass,
\* the sector check fails because "Software" is in no member list of MSCI_ESG's
\* (non-empty) preferred_sectors, the stock is not compliant and scores 67
C7_ScenarioB_SectorFails ==
    ScenarioB =>
        /\ result.quantitativeCheck.passed
        /\ result.qualitativeCheck.passed
        /\ ~result.sectorCheck.passed
        /\ ~result.sectorCheck.details.isProhibited
        /\ ~result.sectorCheck.details.isPreferred
        /\ ~result.isCompliant
        /\ result.complianceScore = 67

C7_Witness ==
    /\ ScenarioB
    /\ result.quantitativeCheck.failedCriteria = <<>>
    /\ result.screeningType = "esg"

\* Scenario C: SRI has screened a "Healthcare" stock with a severe controversy
ScenarioC ==
    /\ Screened
    /\ methodology = ALL_METHODOLOGIES["SRI"]
    /\ stock.sector = "Healthcare"
    /\ stock.controversies # Undefined
    /\ stock.controversies.severity = "severe"

\* C8 as stated: in Scenario C the qualitative check fails with the reason
\* "Severe controversies detected" and is the only failing sub-check: the stock
\* is not compliant and scores 67
C8_ScenarioC_QualitativeFails ==
    ScenarioC =>
        /\ ~result.qualitativeCheck.passed
        /\ Includes(result.qualitativeCheck.details.failureReasons, SevereReason)
        /\ result.sectorCheck.passed
        /\ result.quantitativeCheck.passed
        /\ ~result.isCompliant
        /\ result.complianceScore = 67

\* C8 amended: in Scenario C the qualitative check passes with no failure
\* reason (SRI sets neither controversy flag); the sector check is the only
\* failing sub-check ("Healthcare" is in no member list of SRI's preferred
\* tags); the stock is not compliant and scores 67
C8_ScenarioC_SectorFails ==
    ScenarioC =>
        /\ result.qualitativeCheck.passed
        /\ result.qualitativeCheck.details.failureReasons = <<>>
        /\ result.quantitativeCheck.passed
        /\ ~result.sectorCheck.passed
        /\ ~result.sectorCheck.details.isProhibited
        /\ ~result.sectorCheck.details.isPreferred
        /\ ~result.isCompliant
        /\ result.complianceScore = 67

C8_Witness ==
    /\ ScenarioC
    /\ result.qualitativeCheck.details.severityLevel = "severe"
    /\ result.screeningType = "christian"

\* the key names a registered methodology of the requested type
RegisteredFor(type, methodologyKey) ==
    /\ methodologyKey \in Range(MethodologyKeys)
    /\ ALL_METHODOLOGIES[methodologyKey].type = type

\* the registered methodologies of a type, in declaration order
RegisteredOfType(type) ==
    SelectSeq(MethodologyKeys, LAMBDA k : ALL_METHODOLOGIES[k].type = type)

\* C9: constructing with a type that has a registered methodology and a key
\* that is unknown or names a methodology of another type does not raise and
\* binds the first methodology of the type in declaration order, whose type
\* is the requested one
C9_FallbackToFirstOfType ==
    [][\A t \in ScreeningTypes, k \in Keys :
           (/\ Construct(t, k)
            /\ RegisteredOfType(t) # <<>>
            /\ ~RegisteredFor(t, k))
               => /\ engine' = "constructed"
                  /\ methodology' = ALL_METHODOLOGIES[RegisteredOfType(t)[1]]
                  /\ methodology'.type = t
                  /\ screeningType' = t]_vars

\* C10: constructing with a type that has no registered methodology raises for
\* every key and leaves no instance; construction raises in no other case
C10_RaisesIffTypeEmpty ==
    [][\A t \in ScreeningTypes, k \in Keys :
           Construct(t, k)
               => /\ (engine' = "raised") <=> (RegisteredOfType(t) = <<>>)
                  /\ engine' = "raised"
                         => (methodology' = Undefined /\ screeningType' = NoType)]_vars

\* C11: for every registered methodology M with key K, constructing with
\* (M.type, K) binds exactly the record M, not a fallback, every time
C11_ExactKeyResolvesToItself ==
    [][\A k \in Range(MethodologyKeys) :
           Construct(ALL_METHODOLOGIES[k].type, k)
               => /\ engine' = "constructed"
                  /\ methodology' = ALL_METHODOLOGIES[k]
                  /\ screeningType' = ALL_METHODOLOGIES[k].type]_vars

\* an instance bound to a methodology that is not the first of its type
C11_Witness ==
    /\ engine = "constructed"
    /\ screeningType = "esg"
    /\ methodology = ALL_METHODOLOGIES["FTSE4GOOD"]
    /\ methodology # ALL_METHODOLOGIES[RegisteredOfType("esg")[1]]

\* the entry of `checks` with a given name, as a set (empty when not evaluated)
CheckNamed(n) ==
    {result.quantitativeCheck.checks[i].passed :
        i \in {j \in DOMAIN result.quantitativeCheck.checks :
                  result.quantitativeCheck.checks[j].name = n}}

\* C12: under a methodology that specifies max_carbon_intensity, a stock
\* without carbon_intensity has checks.carbon = false, 'carbon' among the
\* failedCriteria, and does not pass the quantitative check
C12_MissingCarbonFails ==
    (/\ Screened
     /\ "max_carbon_intensity" \in DOMAIN methodology.criteria
     /\ "carbon_intensity" \notin DOMAIN stock.financials)
        => /\ CheckNamed("carbon") = {FALSE}
           /\ Includes(result.quantitativeCheck.failedCriteria, "carbon")
           /\ ~result.quantitativeCheck.passed

\* carbon is the only failing field of a stock without carbon_intensity
C12_Witness ==
    /\ Screened
    /\ "max_carbon_intensity" \in DOMAIN methodology.criteria
    /\ "carbon_intensity" \notin DOMAIN stock.financials
    /\ result.quantitativeCheck.failedCriteria = <<"carbon">>

(***************************************************************************)
(* The engine bound to a methodology record the registry could hold: the  *)
(* thresholds of the two upper-bound ESG fields range over values on both  *)
(* sides of the defaults the quantitative check substitutes.               *)
(***************************************************************************)
\* sparse criteria over max_esg_risk and max_carbon_intensity
CustomCriteria ==
    LET risk == {[f \in {} |-> 0]}
                    \cup {("max_esg_risk" :> v) : v \in {2500, 9999, 10000, 15000}}
        carbon == {[f \in {} |-> 0]}
                      \cup {("max_carbon_intensity" :> v) : v \in {10000}}
    IN  {r @@ c : r \in risk, c \in carbon}

CustomMethodologies ==
    {[name |-> "User Defined", type |-> "custom", criteria |-> c,
      prohibited_sectors |-> <<>>] : c \in CustomCriteria}

InitCriteria ==
    /\ engine = "constructed"
    /\ screeningType = "custom"
    /\ methodology \in CustomMethodologies
    /\ error = NoThrow
    /\ stock = NoStock
    /\ result = NoResult

NextCriteria ==
    \/ ScreenStock
    \/ TakeResult

SpecCriteria == InitCriteria /\ [][NextCriteria]_vars

\* C13: under a methodology that specifies max_esg_risk, a stock without
\* esg_risk is evaluated with the value 100: the field fails iff the maximum
\* is below 100 and passes when it is 100 or more
C13_MissingEsgRiskIs100 ==
    (/\ Screened
     /\ "max_esg_risk" \in DOMAIN methodology.criteria
     /\ "esg_risk" \notin DOMAIN stock.financials)
        => /\ result.quantitativeCheck.details["esg_risk"].risk = 10000
           /\ CheckNamed("esg_risk")
                  = {methodology.criteria["max_esg_risk"] >= 10000}

\* a maximum of exactly 100 lets a stock without esg_risk pass the field
C13_Witness ==
    /\ Screened
    /\ "max_esg_risk" \in DOMAIN methodology.criteria
    /\ methodology.criteria["max_esg_risk"] = 10000
    /\ "esg_risk" \notin DOMAIN stock.financials
    /\ CheckNamed("esg_risk") = {TRUE}

\* C14: for every registered methodology and every structurally valid stock,
\* whatever optional financial fields and controversies are missing,
\* screenStock raises nothing and returns a result with isCompliant, the three
\* sub-check results, screeningType, methodology name, complianceScore and
\* recommendations all populated
C14_ResultFullyPopulated ==
    /\ (engine = "constructed" /\ result = NoResult) => ENABLED ScreenStock
    /\ Screened =>
        /\ validateStock(stock)
        /\ engine = "constructed"
        /\ error = NoThrow
        /\ DOMAIN result = {"isCompliant", "sectorCheck", "quantitativeCheck",
                            "qualitativeCheck", "screeningType", "methodology",
                            "complianceScore", "recommendations"}
        /\ result.isCompliant \in BOOLEAN
        /\ result.sectorCheck.passed \in BOOLEAN
        /\ result.quantitativeCheck.passed \in BOOLEAN
        /\ result.qualitativeCheck.passed \in BOOLEAN
        /\ result.screeningType = screeningType
        /\ result.methodology = methodology.name
        /\ result.complianceScore \in 0..100
        /\ DOMAIN result.recommendations = 1..Len(result.recommendations)

\* a stock with no optional financial field and no controversies was screened
C14_Witness ==
    /\ Screened
    /\ stock.financials = NoFinancials
    /\ stock.controversies = Undefined
    /\ DOMAIN result.quantitativeCheck.details # {}

\* where a sub-check's messages stand in the recommendations
SourceRank(source) ==
    CASE source = "sector" -> 1
      [] source = "quantitative" -> 2
      [] source = "qualitative" -> 3

\* where a check name stands in the evaluation order
EvaluationIndex(name) ==
    CHOOSE n \in DOMAIN CheckOrder : CheckOrder[n][2] = name

\* the messages of the result that come from one sub-check
MessagesFrom(source) ==
    SelectSeq(result.recommendations, LAMBDA msg : msg.source = source)

\* C15: the recommendations hold messages only of failed sub-checks (none for a
\* compliant stock), ordered sector, then quantitative in the order the fields
\* were evaluated, then qualitative
C15_OnlyFailedChecksInOrder ==
    Screened =>
        LET recs == result.recommendations
        IN  /\ result.sectorCheck.passed => MessagesFrom("sector") = <<>>
            /\ result.quantitativeCheck.passed => MessagesFrom("quantitative") = <<>>
            /\ result.qualitativeCheck.passed => MessagesFrom("qualitative") = <<>>
            /\ result.isCompliant => recs = <<>>
            /\ \A i, j \in DOMAIN recs :
                   i < j =>
                       /\ SourceRank(recs[i].source) <= SourceRank(recs[j].source)
                       /\ (recs[i].source = "quantitative"
                             /\ recs[j].source = "quantitative")
                              => EvaluationIndex(recs[i].arg)
                                     < EvaluationIndex(recs[j].arg)

\* all three sub-checks failed, two or more quantitative fields among them
C15_Witness ==
    /\ Screened
    /\ MessagesFrom("sector") # <<>>
    /\ Len(MessagesFrom("quantitative")) >= 2
    /\ MessagesFrom("qualitative") # <<>>

\* the messages about a prohibited sector
ProhibitedMessages ==
    SelectSeq(MessagesFrom("sector"), LAMBDA msg : msg.arg = stock.sector)

\* the message about the failed sector preference
PreferenceMessages ==
    SelectSeq(MessagesFrom("sector"), LAMBDA msg : msg.arg = "")

\* what C16 says of every message but the prohibited-sector ones
OtherMessageCounts ==
    /\ Len(PreferenceMessages)
           = (IF result.sectorCheck.details.isPreferred THEN 0 ELSE 1)
    /\ Len(MessagesFrom("quantitative"))
           = Len(result.quantitativeCheck.failedCriteria)
    /\ \A i \in DOMAIN result.quantitativeCheck.failedCriteria :
           MessagesFrom("quantitative")[i].arg
               = result.quantitativeCheck.failedCriteria[i]
    /\ Len(MessagesFrom("qualitative"))
           = Len(result.qualitativeCheck.details.failureReasons)
    /\ \A i \in DOMAIN result.qualitativeCheck.details.failureReasons :
           MessagesFrom("qualitative")[i].arg
               = result.qualitativeCheck.details.failureReasons[i]
    /\ Len(result.recommendations)
           = Len(ProhibitedMessages) + Len(PreferenceMessages)
                 + Len(MessagesFrom("quantitative"))
                 + Len(MessagesFrom("qualitative"))

\* C16 as stated: one message for each tag in prohibitedCategories, one when
\* the preference failed, one per failedCriteria entry, one per qualitative
\* failure reason, and the length is the sum of these counts
C16_OneMessagePerTag ==
    Screened =>
        /\ Len(ProhibitedMessages)
               = Len(result.sectorCheck.details.prohibitedCategories)
        /\ OtherMessageCounts

\* C16 amended: one message when the sector is prohibited, however many tags
\* of prohibitedCategories contain it; the other counts as stated
C16_OneMessagePerProhibitedSector ==
    Screened =>
        /\ Len(ProhibitedMessages)
               = (IF result.sectorCheck.details.isProhibited THEN 1 ELSE 0)
        /\ result.sectorCheck.details.isProhibited
               <=> result.sectorCheck.details.prohibitedCategories # <<>>
        /\ OtherMessageCounts

\* a sector listed under two prohibited tags gets one message
C16_Witness ==
    /\ Screened
    /\ Len(result.sectorCheck.details.prohibitedCategories) = 2
    /\ Len(ProhibitedMessages) = 1

\* C17: every key the index lists for a type is registered with that type, so
\* constructing with a type and a key the index lists for it never raises and
\* binds exactly that key; conversely every registered key is listed in the
\* index entry of its type
C17_IndexAgreesWithRegistry ==
    [][/\ \A k \in Range(MethodologyKeys) :
              /\ ALL_METHODOLOGIES[k].type \in DOMAIN ETHICAL_SCREENING_TYPES
              /\ Includes(ETHICAL_SCREENING_TYPES[ALL_METHODOLOGIES[k].type], k)
       /\ \A t \in DOMAIN ETHICAL_SCREENING_TYPES :
              \A k \in Range(ETHICAL_SCREENING_TYPES[t]) :
                  Construct(t, k)
                      => /\ RegisteredFor(t, k)
                         /\ engine' = "constructed"
                         /\ screeningType' = t
                         /\ methodology' = ALL_METHODOLOGIES[k]]_vars

\* C18: under max_carbon_intensity and max_esg_risk, a stock whose value is
\* present and at most the bound, 0 included, passes that field, and the value
\* evaluated is the stock's own, not the default of an absent one
C18_PresentValueWithinBoundPasses ==
    Screened =>
        /\ (/\ "max_carbon_intensity" \in DOMAIN methodology.criteria
            /\ "carbon_intensity" \in DOMAIN stock.financials
            /\ stock.financials["carbon_intensity"]
                   <= methodology.criteria["max_carbon_intensity"])
               => /\ CheckNamed("carbon") = {TRUE}
                  /\ result.quantitativeCheck.details["carbon"].intensity
                         = stock.financials["carbon_intensity"]
        /\ (/\ "max_esg_risk" \in DOMAIN methodology.criteria
            /\ "esg_risk" \in DOMAIN stock.financials
            /\ stock.financials["esg_risk"]
                   <= methodology.criteria["max_esg_risk"])
               => /\ CheckNamed("esg_risk") = {TRUE}
                  /\ result.quantitativeCheck.details["esg_risk"].risk
                         = stock.financials["esg_risk"]

====
